---- MODULE Spec2Model ----
(***************************************************************************)
(* The multi object tracker node (MultiObjectTracker): its constructor,    *)
(* the data-arrival callback onTrigger with the per-batch cycle            *)
(* runProcess, the periodic callback onTimer, and checkAndPublish/publish. *)
(* The callbacks are modelled statement group by statement group, each     *)
(* callback with its own position, so that interleavings are decided by    *)
(* the executor rule and not by the granularity of the model.              *)
(* Time is an integer number of clock units.                               *)
(***************************************************************************)
EXTENDS Integers, Sequences, FiniteSets, TLC

\* ---------------------------------------------------------------- bounds
MaxTime == 3          \* the clock stops advancing here
MaxBatches == 2       \* longest objects_list one getObjects call delivers
MaxDet == 2           \* most detections in one batch
MaxTimerTime == 6     \* where the clock stops in the publish timer's specification

\* Detections and Tracks sit at one of these positions, and a batch's header
\* stamp is this much older than the clock reading of its delivery.
Positions == {1}
Delays == {0, 1}
Stamps(t) == {t - d : d \in {e \in Delays : e <= t}}

\* ------------------------------------------------- configuration values
\* tracker_lifetime, confident_count_threshold, 1.0 / publish_rate, in
\* clock units; the interval ratios in percent. With a period of two units
\* an elapsed time of one unit is below the minimum publish interval, two
\* and three are between the minimum and the maximum, four is above.
TrackerLifetime == 1
ConfidentCountThreshold == 2
PublisherPeriod == 2
minimum_publish_interval_ratio == 85
maximum_publish_interval_ratio == 180

VARIABLES
  now,                   \* the node clock, this->now()
  constructed,           \* TRUE when the constructor has returned normally
  input_channels_,       \* sequence of [is_spawn_enabled]
  input_manager_,        \* TRUE once the input manager exists with its trigger function
  processor_,            \* TRUE once the tracker processor exists
  association_,          \* TRUE once the data association exists
  publish_timer_,        \* TRUE once the publish timer exists
  enable_odometry_uncertainty_,
  last_published_time_,
  last_updated_time_,
  list_tracker_,         \* the Track population of the processor, in list order
  pc,                    \* position of each callback: [trigger, timer]
  current_time,          \* the local current_time of each callback
  objects_list,          \* onTrigger's local objects_list
  batch_index,           \* index of the batch the for loop of onTrigger is at
  cycle,                 \* locals of the running runProcess, and its call record
  output,                \* what each running callback has published
  entry,                 \* the state each running callback was dispatched in
                         \* (the population itself until a cycle of the
                         \* callback executes, its size throughout)
  updated_since_publication
                         \* history: TRUE when an onTrigger has received ready
                         \* objects since checkAndPublish last returned

vars == <<now, constructed, input_channels_, input_manager_, processor_, association_,
          publish_timer_, enable_odometry_uncertainty_, last_published_time_,
          last_updated_time_, list_tracker_, pc, current_time,
          objects_list, batch_index, cycle, output, entry,
          updated_since_publication>>

Callbacks == {"trigger", "timer"}

Min(a, b) == IF a < b THEN a ELSE b

\* ------------------------------------------------------------------------
\* Tracker processor, data association, input manager: the parts the node
\* calls. A Track is [pos, status, count, last_update, time]: position,
\* lifecycle status, number of updates (saturating at the confirmation
\* threshold), time of the last update and the time its estimator has been
\* predicted to.
\* ------------------------------------------------------------------------

\* The subsequence of s at the indices in keep, order kept.
RECURSIVE KeepIndices(_, _, _)
KeepIndices(s, keep, i) ==
  IF i > Len(s) THEN <<>>
  ELSE (IF i \in keep THEN <<s[i]>> ELSE <<>>) \o KeepIndices(s, keep, i + 1)

\* predict(to_time): every estimator is advanced to to_time.
Predict(trackers, time) ==
  [i \in DOMAIN trackers |-> [trackers[i] EXCEPT !.time = time]]

\* calcScoreMatrix: a pair is assignable when track and detection are at
\* the same position; every other pair is unassignable.
CanAssign(trackers, objects, i, j) == trackers[i].pos = objects[j]

\* The lowest pair of a set of pairs in (track index, detection index) order.
LowestPair(pairs) ==
  CHOOSE p \in pairs : \A q \in pairs :
    p[1] < q[1] \/ (p[1] = q[1] /\ p[2] <= q[2])

\* assign: greedy global nearest neighbour; direct maps track index to
\* detection index.
RECURSIVE Assign(_, _, _, _, _)
Assign(trackers, objects, free_t, free_o, direct) ==
  LET pairs == {p \in free_t \X free_o : CanAssign(trackers, objects, p[1], p[2])}
  IN IF pairs = {} THEN direct
     ELSE LET p == LowestPair(pairs)
          IN Assign(trackers, objects, free_t \ {p[1]}, free_o \ {p[2]},
                    direct @@ (p[1] :> p[2]))

DirectAssignment(trackers, objects) ==
  Assign(trackers, objects, DOMAIN trackers, DOMAIN objects, <<>>)

ReverseAssignment(direct) ==
  [j \in {direct[i] : i \in DOMAIN direct} |->
     CHOOSE i \in DOMAIN direct : direct[i] = j]

\* update(objects, self_transform, direct_assignment): a matched Track is
\* corrected with its detection at the measurement time.
UpdatedTrack(t, time) ==
  LET c == Min(t.count + 1, ConfidentCountThreshold)
  IN [t EXCEPT !.count = c, !.last_update = time,
               !.status = IF c >= ConfidentCountThreshold THEN "CONFIRMED" ELSE @]

Update(trackers, direct, time) ==
  [i \in DOMAIN trackers |->
     IF i \in DOMAIN direct THEN UpdatedTrack(trackers[i], time) ELSE trackers[i]]

\* prune(time): Tracks older than the lifetime go, then of two Tracks at
\* one position the one with fewer updates (the later one on a tie) goes.
TooOld(t, time) == time - t.last_update > TrackerLifetime

Overlapped(trackers, alive, i) ==
  \E j \in alive : /\ j # i
                   /\ trackers[j].pos = trackers[i].pos
                   /\ \/ trackers[j].count > trackers[i].count
                      \/ (trackers[j].count = trackers[i].count /\ j < i)

Prune(trackers, time) ==
  LET alive == {i \in DOMAIN trackers : ~TooOld(trackers[i], time)}
      keep == {i \in alive : ~Overlapped(trackers, alive, i)}
  IN KeepIndices(trackers, keep, 1)

\* spawn(objects, reverse_assignment): every unmatched detection becomes a
\* new TENTATIVE Track.
NewTrack(pos, time) ==
  [pos |-> pos, status |-> "TENTATIVE", count |-> 1,
   last_update |-> time, time |-> time]

RECURSIVE SpawnFrom(_, _, _, _)
SpawnFrom(objects, reverse, time, j) ==
  IF j > Len(objects) THEN <<>>
  ELSE IF j \in DOMAIN reverse THEN SpawnFrom(objects, reverse, time, j + 1)
  ELSE <<NewTrack(objects[j], time)>> \o SpawnFrom(objects, reverse, time, j + 1)

Spawn(trackers, objects, reverse, time) ==
  trackers \o SpawnFrom(objects, reverse, time, 1)

\* getTrackedObjects / getTentativeObjects: the Tracks of one status.
GetTrackedObjects(trackers) ==
  SelectSeq(trackers, LAMBDA t : t.status = "CONFIRMED")

GetTentativeObjects(trackers) ==
  SelectSeq(trackers, LAMBDA t : t.status = "TENTATIVE")

\* InputManager::isChannelSpawnEnabled(channel_index)
IsChannelSpawnEnabled(channel_index) ==
  input_channels_[channel_index].is_spawn_enabled

\* ------------------------------------------------------------------------
\* The node: constructor
\* ------------------------------------------------------------------------

NoCycle == [running |-> FALSE]
NoEntry == [running |-> FALSE]
NoList == [size |-> 0, back_stamp |-> 0, floor |-> 0, executed |-> FALSE,
           skipped |-> FALSE, processed |-> 0]
NoMessage == [published |-> FALSE, calls |-> 0]

\* The constructor has no path that throws: it returns normally with any
\* channel list.
ConstructorReturns(selected_input_channels) == TRUE

\* The constructor returns before it creates anything when no input
\* channel is selected.
ConstructorCompletes(selected_input_channels) == Len(selected_input_channels) > 0

\* The publish timer exists only with delay compensation.
CreatesPublishTimer(enable_delay_compensation) == enable_delay_compensation

\* The selected channel lists: none, and a spawn-enabled channel followed
\* by one that cannot spawn.
ChannelConfigs ==
  {<<>>, <<[is_spawn_enabled |-> TRUE], [is_spawn_enabled |-> FALSE]>>}

\* The state the constructor leaves. last_published_time_ and
\* last_updated_time_ start at the clock reading of the construction.
Constructed(selected, enable_delay_compensation, odometry) ==
  /\ now = 0
  /\ constructed = ConstructorReturns(selected)
  /\ last_published_time_ = 0
  /\ last_updated_time_ = 0
  /\ enable_odometry_uncertainty_ = odometry
  /\ input_channels_ = IF ConstructorCompletes(selected) THEN selected ELSE <<>>
  /\ input_manager_ = ConstructorCompletes(selected)
  /\ processor_ = ConstructorCompletes(selected)
  /\ association_ = ConstructorCompletes(selected)
  /\ publish_timer_ = (ConstructorCompletes(selected)
                         /\ CreatesPublishTimer(enable_delay_compensation))
  /\ list_tracker_ = <<>>
  /\ pc = [cb \in Callbacks |-> "idle"]
  /\ current_time = [cb \in Callbacks |-> 0]
  /\ objects_list = NoList
  /\ batch_index = 0
  /\ cycle = NoCycle
  /\ output = [cb \in Callbacks |-> NoMessage]
  /\ entry = [cb \in Callbacks |-> NoEntry]
  /\ updated_since_publication = FALSE

Init ==
  \E selected \in ChannelConfigs, enable_delay_compensation \in BOOLEAN,
     odometry \in BOOLEAN :
    Constructed(selected, enable_delay_compensation, odometry)

\* ------------------------------------------------------------------------
\* The executor: both callbacks belong to the node's default callback
\* group, which is mutually exclusive, so a callback is dispatched only
\* while no callback of its group is running.
\* ------------------------------------------------------------------------

TimerCallbackGroup_Own == "publish_timer"

\* create_timer is given no callback group, the subscriptions of the input
\* manager neither.
TimerCallbackGroup == "default"
TriggerCallbackGroup == "default"

CallbackGroup(cb) == IF cb = "timer" THEN TimerCallbackGroup ELSE TriggerCallbackGroup

CanRun(cb) ==
  \A other \in Callbacks \ {cb} :
    CallbackGroup(other) = CallbackGroup(cb) => pc[other] = "idle"

EntryState ==
  [running |-> TRUE, trackers |-> list_tracker_, size |-> Len(list_tracker_),
   last_updated_time |-> last_updated_time_,
   last_published_time |-> last_published_time_]

config_vars == <<constructed, input_channels_, input_manager_, processor_, association_,
                 publish_timer_, enable_odometry_uncertainty_>>

\* The clock advances. The callbacks read it at dispatch and at the end of
\* checkAndPublish only, so it is enough that it advances between callbacks
\* and right before that last read.
TickUntil(limit) ==
  /\ now < limit
  /\ \A cb \in Callbacks : pc[cb] \in {"idle", "cap_stamp"}
  /\ now' = now + 1
  /\ UNCHANGED <<config_vars, updated_since_publication,
                 last_published_time_, last_updated_time_,
                 list_tracker_, pc, current_time, objects_list,
                 batch_index, cycle, output, entry>>

Tick == TickUntil(MaxTime)

\* ------------------------------------------------------------------------
\* onTrigger
\* ------------------------------------------------------------------------

AfterGetObjects_NoReturn(is_objects_ready) == "for"

\* if (!is_objects_ready) return;
AfterGetObjects(is_objects_ready) == IF ~is_objects_ready THEN "done" ELSE "for"

LoopDone_AfterFirst(index, size) == index > 1

\* The for loop over objects_list is over after its last batch.
LoopDone(index, size) == index > size

AfterLoop_AlwaysPublish(has_publish_timer) == "cap_prune"

\* if (!publish_timer_) checkAndPublish(latest_object_time);
AfterLoop(has_publish_timer) == IF ~has_publish_timer THEN "cap_prune" ELSE "done"

\* The input manager invokes the trigger function; current_time = now().
OnTriggerStart ==
  /\ input_manager_
  /\ pc["trigger"] = "idle"
  /\ CanRun("trigger")
  /\ pc' = [pc EXCEPT !["trigger"] = "getObjects"]
  /\ current_time' = [current_time EXCEPT !["trigger"] = now]
  /\ entry' = [entry EXCEPT !["trigger"] = EntryState]
  /\ batch_index' = 1
  /\ UNCHANGED <<now, config_vars, updated_since_publication,
                 last_published_time_, last_updated_time_,
                 list_tracker_, objects_list, cycle, output>>

\* getObjects reports no ready batch.
OnTriggerNotReady ==
  /\ pc["trigger"] = "getObjects"
  /\ pc' = [pc EXCEPT !["trigger"] = AfterGetObjects(FALSE)]
  /\ UNCHANGED <<now, config_vars, updated_since_publication,
                 last_published_time_, last_updated_time_,
                 list_tracker_, current_time, objects_list, batch_index,
                 cycle, output, entry>>

\* getObjects delivers a time-ordered list of size batches, the last one
\* stamped back_stamp; last_updated_time_ = current_time. A batch's
\* channel and objects are left open until the loop reaches it: nothing
\* reads them earlier. executed and skipped record whether a cycle of the
\* list has run its steps and whether one has returned for lack of a
\* transform, processed counts the runProcess calls of the loop.
OnTriggerReady ==
  /\ pc["trigger"] = "getObjects"
  /\ \E size \in 1..MaxBatches, back_stamp \in Stamps(current_time["trigger"]) :
       objects_list' = [size |-> size, back_stamp |-> back_stamp,
                        floor |-> 0, executed |-> FALSE, skipped |-> FALSE,
                        processed |-> 0]
  /\ last_updated_time_' = current_time["trigger"]
  /\ updated_since_publication' = TRUE
  /\ pc' = [pc EXCEPT !["trigger"] = AfterGetObjects(TRUE)]
  /\ UNCHANGED <<now, config_vars, last_published_time_, list_tracker_,
                 current_time, batch_index, cycle, output, entry>>

Detections == UNION {[1..n -> Positions] : n \in 0..MaxDet}

\* for (const auto & objects_data : objects_list) runProcess(objects_data);
\* measurement_time is the batch's header stamp.
RunProcessStart ==
  /\ pc["trigger"] = "for"
  /\ ~LoopDone(batch_index, objects_list.size)
  /\ \E channel_index \in DOMAIN input_channels_, objects \in Detections,
        stamp \in {t \in Stamps(current_time["trigger"]) :
                     objects_list.floor <= t /\ t <= objects_list.back_stamp} :
       /\ batch_index = objects_list.size => stamp = objects_list.back_stamp
       /\ cycle' = [running |-> TRUE, steps |-> <<>>, before |-> list_tracker_,
                    self_transform |-> "pending", transformed |-> "pending",
                    channel_index |-> channel_index,
                    input_objects |-> objects,
                    measurement_time |-> stamp,
                    direct_assignment |-> <<>>, reverse_assignment |-> <<>>]
       /\ objects_list' = [objects_list EXCEPT !.floor = stamp,
                                                !.processed = @ + 1]
  /\ pc' = [pc EXCEPT !["trigger"] = "lookup"]
  /\ UNCHANGED <<now, config_vars, updated_since_publication,
                 last_published_time_, last_updated_time_,
                 list_tracker_, current_time, batch_index, output, entry>>

\* The loop is over.
OnTriggerLoopEnd ==
  /\ pc["trigger"] = "for"
  /\ LoopDone(batch_index, objects_list.size)
  /\ pc' = [pc EXCEPT !["trigger"] = AfterLoop(publish_timer_)]
  /\ UNCHANGED <<now, config_vars, updated_since_publication,
                 last_published_time_, last_updated_time_,
                 list_tracker_, current_time, objects_list, batch_index,
                 cycle, output, entry>>

\* ------------------------------------------------------------------------
\* runProcess
\* ------------------------------------------------------------------------

AfterLookup_NoReturn(found) == "transformObjects"

\* if (!self_transform) return;
AfterLookup(found) == IF ~found THEN "return" ELSE "transformObjects"

AfterTransformObjects_NoReturn(ok) == "predict"

\* if (!transformObjects(...)) return;
AfterTransformObjects(ok) == IF ~ok THEN "return" ELSE "predict"

\* The uncertainty modelling of the transformed objects.
UncertaintySteps(odometry) ==
  (IF odometry THEN <<"addOdometryUncertainty">> ELSE <<>>)
    \o <<"normalizeUncertainty">>

RunProcessOrder_UpdateFirst(at) ==
  CASE at = "predict" -> "update"
    [] at = "update" -> "associate"
    [] at = "associate" -> "prune"

\* The statement order of the rest of the cycle.
RunProcessOrder(at) ==
  CASE at = "predict" -> "associate"
    [] at = "associate" -> "update"
    [] at = "update" -> "prune"

AfterPrune_AlwaysSpawn(spawn_enabled) == "spawn"

\* if (input_manager_->isChannelSpawnEnabled(channel_index)) spawn(...)
AfterPrune(spawn_enabled) == IF spawn_enabled THEN "spawn" ELSE "return"

trigger_unchanged == <<now, config_vars, updated_since_publication,
                       last_published_time_, last_updated_time_,
                       current_time, batch_index, output>>

Step(from, to, name) ==
  /\ pc["trigger"] = from
  /\ pc' = [pc EXCEPT !["trigger"] = to]
  /\ cycle' = [cycle EXCEPT !.steps = Append(@, name)]

\* getTransformAnonymous(tf_buffer_, "base_link", world_frame_id_, time)
GetSelfTransform ==
  \E found \in BOOLEAN :
    /\ pc["trigger"] = "lookup"
    /\ pc' = [pc EXCEPT !["trigger"] = AfterLookup(found)]
    /\ cycle' = [cycle EXCEPT !.steps = Append(@, "getTransform"),
                              !.self_transform = IF found THEN "found" ELSE "none"]
    /\ objects_list' = [objects_list EXCEPT
         !.skipped = @ \/ AfterLookup(found) = "return"]
    /\ UNCHANGED <<trigger_unchanged, list_tracker_, entry>>

\* shapes::transformObjects(input_objects, world_frame_id_, tf_buffer_, ...),
\* then addOdometryUncertainty and normalizeUncertainty on the local
\* transformed_objects.
TransformObjects ==
  \E ok \in BOOLEAN :
    /\ pc["trigger"] = "transformObjects"
    /\ pc' = [pc EXCEPT !["trigger"] = AfterTransformObjects(ok)]
    /\ cycle' = [cycle EXCEPT
         !.steps = Append(@, "transformObjects")
                     \o (IF AfterTransformObjects(ok) = "return" THEN <<>>
                         ELSE UncertaintySteps(enable_odometry_uncertainty_)),
         !.transformed = IF ok THEN "done" ELSE "failed"]
    /\ objects_list' = [objects_list EXCEPT
         !.executed = @ \/ AfterTransformObjects(ok) # "return",
         !.skipped = @ \/ AfterTransformObjects(ok) = "return"]
    /\ entry' = IF AfterTransformObjects(ok) = "return" THEN entry
                ELSE [entry EXCEPT !["trigger"].trackers = <<>>]
    /\ UNCHANGED <<trigger_unchanged, list_tracker_>>

\* processor_->predict(measurement_time)
RunPredict ==
  /\ Step("predict", RunProcessOrder("predict"), "predict")
  /\ list_tracker_' = Predict(list_tracker_, cycle.measurement_time)
  /\ UNCHANGED <<trigger_unchanged, objects_list, entry>>

\* calcScoreMatrix and assign on the processor's current list
RunAssociate ==
  /\ pc["trigger"] = "associate"
  /\ pc' = [pc EXCEPT !["trigger"] = RunProcessOrder("associate")]
  /\ LET direct == DirectAssignment(list_tracker_, cycle.input_objects)
     IN cycle' = [cycle EXCEPT !.steps = Append(@, "associate"),
                               !.direct_assignment = direct,
                               !.reverse_assignment = ReverseAssignment(direct)]
  /\ UNCHANGED <<trigger_unchanged, objects_list, list_tracker_, entry>>

\* processor_->update(transformed_objects, *self_transform, direct_assignment)
RunUpdate ==
  /\ Step("update", RunProcessOrder("update"), "update")
  /\ list_tracker_' =
       Update(list_tracker_, cycle.direct_assignment, cycle.measurement_time)
  /\ UNCHANGED <<trigger_unchanged, objects_list, entry>>

\* processor_->prune(measurement_time)
RunPrune ==
  /\ Step("prune", AfterPrune(IsChannelSpawnEnabled(cycle.channel_index)), "prune")
  /\ list_tracker_' = Prune(list_tracker_, cycle.measurement_time)
  /\ UNCHANGED <<trigger_unchanged, objects_list, entry>>

\* processor_->spawn(transformed_objects, reverse_assignment)
RunSpawn ==
  /\ Step("spawn", "return", "spawn")
  /\ list_tracker_' = Spawn(list_tracker_, cycle.input_objects,
                            cycle.reverse_assignment, cycle.measurement_time)
  /\ UNCHANGED <<trigger_unchanged, objects_list, entry>>

\* runProcess returns; the loop goes on to the next batch.
RunProcessReturn ==
  /\ pc["trigger"] = "return"
  /\ pc' = [pc EXCEPT !["trigger"] = "for"]
  /\ batch_index' = batch_index + 1
  /\ cycle' = NoCycle
  /\ UNCHANGED <<now, config_vars, updated_since_publication,
                 last_published_time_, last_updated_time_,
                 list_tracker_, current_time, objects_list, output, entry>>

\* ------------------------------------------------------------------------
\* onTimer
\* ------------------------------------------------------------------------

TimerDecision_NoMaximum(cur, last_published, last_updated) ==
  IF (cur - last_published) * 100 < PublisherPeriod * minimum_publish_interval_ratio
    THEN "done"
  ELSE IF last_published < last_updated THEN "cap_prune"
  ELSE "done"

TimerDecision_NoMinimum(cur, last_published, last_updated) ==
  IF \/ last_published < last_updated
     \/ (cur - last_published) * 100 > PublisherPeriod * maximum_publish_interval_ratio
    THEN "cap_prune"
  ELSE "done"

\* if (elapsed_time < minimum_publish_interval) return;
\* should_publish = last_published_time_ < last_updated_time_
\*                  || elapsed_time > maximum_publish_interval
TimerDecision(cur, last_published, last_updated) ==
  LET elapsed_time == cur - last_published
  IN IF elapsed_time * 100 < PublisherPeriod * minimum_publish_interval_ratio
       THEN "done"
     ELSE IF \/ last_published < last_updated
             \/ elapsed_time * 100 > PublisherPeriod * maximum_publish_interval_ratio
       THEN "cap_prune"
     ELSE "done"

\* The publish timer fires; current_time = now().
OnTimerStart ==
  /\ publish_timer_
  /\ pc["timer"] = "idle"
  /\ CanRun("timer")
  /\ pc' = [pc EXCEPT !["timer"] = "check"]
  /\ current_time' = [current_time EXCEPT !["timer"] = now]
  /\ entry' = [entry EXCEPT !["timer"] = EntryState]
  /\ UNCHANGED <<now, config_vars, updated_since_publication,
                 last_published_time_, last_updated_time_,
                 list_tracker_, objects_list, batch_index, cycle, output>>

OnTimerCheck ==
  /\ pc["timer"] = "check"
  /\ pc' = [pc EXCEPT !["timer"] =
              TimerDecision(current_time["timer"], last_published_time_,
                            last_updated_time_)]
  /\ UNCHANGED <<now, config_vars, updated_since_publication,
                 last_published_time_, last_updated_time_,
                 list_tracker_, current_time, objects_list, batch_index,
                 cycle, output, entry>>

\* ------------------------------------------------------------------------
\* checkAndPublish(time), publish(time)
\* ------------------------------------------------------------------------

\* The time each caller passes: onTrigger the header stamp of the last
\* batch, onTimer its current_time.
PublishTime(cb) ==
  IF cb = "trigger" THEN objects_list.back_stamp ELSE current_time[cb]

CheckAndPublishTrackers_Predicts(trackers, time) ==
  Prune(Predict(trackers, time), time)

CheckAndPublishTrackers_NoPrune(trackers, time) == trackers

\* processor_->prune(time)
CheckAndPublishTrackers(trackers, time) == Prune(trackers, time)

HasSubscriber_Always(subscriber_count) == TRUE

\* if (subscriber_count < 1) return;
HasSubscriber(subscriber_count) == ~(subscriber_count < 1)

MainOutput_AllTracks(trackers) == trackers

\* processor_->getTrackedObjects(time, output_msg) fills the message of
\* tracked_objects_pub_, processor_->getTentativeObjects(time, ...) the one
\* the debugger publishes.
MainOutput(trackers) == GetTrackedObjects(trackers)
TentativeOutput(trackers) == GetTentativeObjects(trackers)

LastPublishedTime_PublishTime(time, clock) == time

\* last_published_time_ = this->now();
LastPublishedTime(time, clock) == clock

\* checkAndPublish is entered (calls counts the entries of the running
\* callback): processor_->prune(time).
CheckAndPublishPrune(cb) ==
  /\ pc[cb] = "cap_prune"
  /\ pc' = [pc EXCEPT ![cb] = "cap_publish"]
  /\ list_tracker_' = CheckAndPublishTrackers(list_tracker_, PublishTime(cb))
  /\ output' = [output EXCEPT ![cb].calls = @ + 1]
  /\ UNCHANGED <<now, config_vars, updated_since_publication,
                 last_published_time_, last_updated_time_,
                 current_time, objects_list, batch_index, cycle, entry>>

\* publish(time): with a subscriber, the tracked objects message, the
\* tentative objects message when the debugger asks for it, and the
\* markers; without one, nothing.
Publish(cb) ==
  /\ pc[cb] = "cap_publish"
  /\ pc' = [pc EXCEPT ![cb] = "cap_stamp"]
  /\ \E subscriber_count \in 0..1, tentative \in BOOLEAN :
       output' =
         IF HasSubscriber(subscriber_count)
           THEN [output EXCEPT ![cb] =
                   [published |-> TRUE,
                    calls |-> output[cb].calls,
                    subscriber_count |-> subscriber_count,
                    stamp |-> PublishTime(cb),
                    objects |-> MainOutput(list_tracker_),
                    tentative_published |-> tentative,
                    tentative |-> IF tentative THEN TentativeOutput(list_tracker_)
                                  ELSE <<>>,
                    markers |-> TRUE]]
         ELSE [output EXCEPT ![cb] =
                   [published |-> FALSE,
                    calls |-> output[cb].calls,
                    subscriber_count |-> subscriber_count]]
  /\ UNCHANGED <<now, config_vars, updated_since_publication,
                 last_published_time_, last_updated_time_,
                 list_tracker_, current_time, objects_list, batch_index,
                 cycle, entry>>

\* last_published_time_ = this->now();
CheckAndPublishStamp(cb) ==
  /\ pc[cb] = "cap_stamp"
  /\ pc' = [pc EXCEPT ![cb] = "done"]
  /\ last_published_time_' = LastPublishedTime(PublishTime(cb), now)
  /\ updated_since_publication' = FALSE
  /\ UNCHANGED <<now, config_vars, last_updated_time_, list_tracker_,
                 current_time, objects_list, batch_index, cycle, output, entry>>

\* The callback returns to the executor.
Return(cb) ==
  /\ pc[cb] = "done"
  /\ pc' = [pc EXCEPT ![cb] = "idle"]
  /\ entry' = [entry EXCEPT ![cb] = NoEntry]
  /\ current_time' = [current_time EXCEPT ![cb] = 0]
  /\ objects_list' = IF cb = "trigger" THEN NoList ELSE objects_list
  /\ batch_index' = IF cb = "trigger" THEN 0 ELSE batch_index
  /\ output' = [output EXCEPT ![cb] = NoMessage]
  /\ UNCHANGED <<now, config_vars, updated_since_publication,
                 last_published_time_, last_updated_time_,
                 list_tracker_, cycle>>

TriggerCheckAndPublishPrune == CheckAndPublishPrune("trigger")
TriggerPublish == Publish("trigger")
TriggerCheckAndPublishStamp == CheckAndPublishStamp("trigger")
TriggerReturn == Return("trigger")
TimerCheckAndPublishPrune == CheckAndPublishPrune("timer")
TimerPublish == Publish("timer")
TimerCheckAndPublishStamp == CheckAndPublishStamp("timer")
TimerReturn == Return("timer")

Next ==
  \/ Tick
  \/ OnTriggerStart
  \/ OnTriggerNotReady
  \/ OnTriggerReady
  \/ RunProcessStart
  \/ OnTriggerLoopEnd
  \/ GetSelfTransform
  \/ TransformObjects
  \/ RunPredict
  \/ RunAssociate
  \/ RunUpdate
  \/ RunPrune
  \/ RunSpawn
  \/ RunProcessReturn
  \/ TriggerCheckAndPublishPrune
  \/ TriggerPublish
  \/ TriggerCheckAndPublishStamp
  \/ TriggerReturn
  \/ OnTimerStart
  \/ OnTimerCheck
  \/ TimerCheckAndPublishPrune
  \/ TimerPublish
  \/ TimerCheckAndPublishStamp
  \/ TimerReturn

Spec == Init /\ [][Next]_vars

\* ------------------------------------------------------------------------
\* The node with delay compensation, one input channel that cannot spawn
\* and no odometry uncertainty, over a longer stretch of time: the publish
\* timer fires again and again, every callback that was dispatched runs to
\* its return, and the clock keeps advancing until it stops at
\* MaxTimerTime.
\* ------------------------------------------------------------------------

TimerInit == Constructed(<<[is_spawn_enabled |-> FALSE]>>, TRUE, FALSE)

TimerTick == TickUntil(MaxTimerTime)

TriggerSteps ==
  \/ OnTriggerNotReady
  \/ OnTriggerReady
  \/ RunProcessStart
  \/ OnTriggerLoopEnd
  \/ GetSelfTransform
  \/ TransformObjects
  \/ RunPredict
  \/ RunAssociate
  \/ RunUpdate
  \/ RunPrune
  \/ RunProcessReturn
  \/ TriggerReturn

TimerSteps ==
  \/ OnTimerCheck
  \/ TimerCheckAndPublishPrune
  \/ TimerPublish
  \/ TimerCheckAndPublishStamp
  \/ TimerReturn

TimerNext ==
  \/ TimerTick
  \/ OnTriggerStart
  \/ TriggerSteps
  \/ OnTimerStart
  \/ TimerSteps

TimerFairness ==
  /\ SF_vars(TimerTick)
  /\ SF_vars(OnTimerStart)
  /\ WF_vars(TriggerSteps)
  /\ WF_vars(TimerSteps)

TimerSpec == TimerInit /\ [][TimerNext]_vars /\ TimerFairness

\* ------------------------------------------------------------------------
\* Properties
\* ------------------------------------------------------------------------

RECURSIVE IsSubsequence(_, _)
IsSubsequence(a, b) ==
  IF a = <<>> THEN TRUE
  ELSE IF b = <<>> THEN FALSE
  ELSE IF Head(a) = Head(b) THEN IsSubsequence(Tail(a), Tail(b))
  ELSE IsSubsequence(a, Tail(b))

InSteps(name) == \E i \in DOMAIN cycle.steps : cycle.steps[i] = name

ProcessorSteps == {"predict", "associate", "update", "prune", "spawn"}

\* runProcess is about to return
AtReturn == pc["trigger"] = "return"
\* ... after a missing transform
Skipped == cycle.self_transform = "none" \/ cycle.transformed = "failed"
\* ... after all of its steps
Executed == cycle.transformed = "done"

\* onTrigger is about to return
TriggerDone == pc["trigger"] = "done"
\* ... having received no ready batch
NotReady == objects_list.size = 0
\* ... having received batches and skipped every one
AllSkipped == objects_list.skipped /\ ~objects_list.executed

\* C1 as stated: after an onTrigger call that handled a batch whose
\* transform was unavailable, the population is the one the call started
\* with (here with the publish timer, where onTrigger itself does not
\* publish: the populations have the same size).
C1_PopulationSameAfterOnTrigger ==
  (TriggerDone /\ objects_list.skipped /\ publish_timer_) =>
    Len(list_tracker_) = entry["trigger"].size

\* C1 amended: a cycle whose transform is unavailable (no self transform,
\* or transformObjects fails) runs no predict, associate, update, prune or
\* spawn and returns with the population it was entered with, with and
\* without the publish timer.
C1_SkippedCycleLeavesPopulation ==
  (AtReturn /\ Skipped) =>
    /\ \A name \in ProcessorSteps : ~InSteps(name)
    /\ list_tracker_ = cycle.before

C1_Witness ==
  /\ AtReturn
  /\ cycle.transformed = "failed"
  /\ Len(cycle.before) > 0

\* C2 as stated: a cycle for a batch with zero objects runs no predict,
\* update, prune or spawn and leaves the population and every Track as
\* they were.
C2_EmptyBatchSkipped ==
  (AtReturn /\ cycle.input_objects = <<>>) =>
    /\ \A name \in ProcessorSteps \ {"associate"} : ~InSteps(name)
    /\ list_tracker_ = cycle.before

\* The population an executed cycle leaves: predict, associate on the
\* predicted population, update, prune, and spawn if asked for.
CycleResult(before, objects, time, with_spawn) ==
  LET predicted == Predict(before, time)
      direct == DirectAssignment(predicted, objects)
      pruned == Prune(Update(predicted, direct, time), time)
  IN IF with_spawn THEN Spawn(pruned, objects, ReverseAssignment(direct), time)
     ELSE pruned

CycleSteps(odometry, with_spawn) ==
  <<"getTransform", "transformObjects">>
    \o (IF odometry THEN <<"addOdometryUncertainty">> ELSE <<>>)
    \o <<"normalizeUncertainty", "predict", "associate", "update", "prune">>
    \o (IF with_spawn THEN <<"spawn">> ELSE <<>>)

\* C3 as stated: every executed cycle runs transform, uncertainty
\* modelling, predict, associate, update, prune and, last, spawn, each once.
C3_EveryCycleEndsWithSpawn ==
  (AtReturn /\ Executed) =>
    cycle.steps = CycleSteps(enable_odometry_uncertainty_, TRUE)

\* C3 amended: every executed cycle runs transform, uncertainty modelling
\* (odometry only if enabled, then normalization), predict to the
\* measurement time, associate against the predicted population, update
\* with the direct assignment, prune at the measurement time, each once and
\* in this order, and then spawn with the reverse assignment if and only if
\* the batch's channel is spawn-enabled; nothing follows.
C3_CycleOrder ==
  (AtReturn /\ Executed) =>
    LET with_spawn == IsChannelSpawnEnabled(cycle.channel_index)
    IN /\ cycle.steps = CycleSteps(enable_odometry_uncertainty_, with_spawn)
       /\ list_tracker_ = CycleResult(cycle.before, cycle.input_objects,
                                      cycle.measurement_time, with_spawn)

C3_Witness ==
  /\ AtReturn /\ Executed
  /\ enable_odometry_uncertainty_
  /\ ~IsChannelSpawnEnabled(cycle.channel_index)
  /\ Len(cycle.before) = 2
  /\ Len(cycle.input_objects) > 0
  /\ list_tracker_ # cycle.before

\* C4: only the spawn step of a cycle for a batch of a spawn-enabled channel
\* adds a Track: a cycle for a batch of a channel that cannot spawn runs no
\* spawn and returns with no more Tracks than it started with (it does run
\* predict, update and prune), and onTimer never adds a Track.
C4_SpawnOnlyOnSpawnChannel ==
  /\ (AtReturn /\ Executed /\ ~IsChannelSpawnEnabled(cycle.channel_index)) =>
       /\ ~InSteps("spawn")
       /\ InSteps("predict") /\ InSteps("update") /\ InSteps("prune")
       /\ Len(list_tracker_) <= Len(cycle.before)
  /\ (cycle.running /\ pc["trigger"] # "return") =>
       Len(list_tracker_) <= Len(cycle.before)
  /\ pc["timer"] # "idle" =>
       Len(list_tracker_) <= Len(entry["timer"].trackers)

\* a detection no Track was assigned to, in a cycle of the channel that
\* cannot spawn
C4_Witness ==
  /\ AtReturn /\ Executed
  /\ ~IsChannelSpawnEnabled(cycle.channel_index)
  /\ \E j \in DOMAIN cycle.input_objects : j \notin DOMAIN cycle.reverse_assignment
  /\ \E i \in DOMAIN list_tracker_ :
       list_tracker_[i].last_update = cycle.measurement_time

\* C5: when getObjects reports no ready batch, onTrigger returns with the
\* population, last_updated_time_ and last_published_time_ it was called
\* with, has run no cycle and has published nothing.
C5_NotReadyChangesNothing ==
  (TriggerDone /\ NotReady) =>
    /\ list_tracker_ = entry["trigger"].trackers
    /\ last_updated_time_ = entry["trigger"].last_updated_time
    /\ last_published_time_ = entry["trigger"].last_published_time
    /\ ~cycle.running
    /\ ~output["trigger"].published

C5_Witness ==
  /\ TriggerDone /\ NotReady
  /\ ~publish_timer_
  /\ Len(list_tracker_) > 0
  /\ now > last_published_time_

\* C6 as stated: a trigger whose batches were all skipped for lack of a
\* transform publishes nothing and leaves last_updated_time_ where it was,
\* so that the next publish tick finds no update to publish.
C6_SkippedTriggerNotMarkedUpdated ==
  (TriggerDone /\ AllSkipped) =>
    /\ ~output["trigger"].published
    /\ last_updated_time_ = entry["trigger"].last_updated_time

\* C7 as stated: no engine is constructed from an empty selected-channel
\* list: a node whose constructor has returned has its input manager, its
\* processor and its association.
C7_NoDegradedEngine ==
  constructed => (input_manager_ /\ processor_ /\ association_)

\* C8: onTrigger and onTimer never run at the same time: while one of them
\* is between its dispatch and its return the other is idle.
C8_CallbacksMutuallyExclusive ==
  ~(pc["trigger"] # "idle" /\ pc["timer"] # "idle")

\* a cycle is under way while the publish timer exists and a publication
\* is due
C8_Witness ==
  /\ pc["trigger"] = "update"
  /\ publish_timer_
  /\ now - last_published_time_ >= PublisherPeriod

\* C9: the population is pruned and read for publication only while no
\* cycle is under way, and in onTrigger only after the loop has gone
\* through every batch of the delivered list.
C9_NoSnapshotMidCycle ==
  \A cb \in Callbacks :
    pc[cb] \in {"cap_prune", "cap_publish"} =>
      /\ ~cycle.running
      /\ pc["trigger"] \notin {"for", "lookup", "transformObjects", "predict",
                               "associate", "update", "prune", "spawn", "return"}
      /\ cb = "trigger" => batch_index = objects_list.size + 1

C9_Witness ==
  /\ pc["trigger"] = "cap_publish"
  /\ objects_list.size = 2
  /\ objects_list.executed
  /\ Len(list_tracker_) > 0

\* C10: onTimer only prunes and publishes: from its dispatch to its return
\* last_updated_time_ stays, and the population is the one at dispatch or
\* its prune at the tick's time, so no Track is added and the Tracks that
\* remain are as they were.
C10_TimerOnlyPrunes ==
  pc["timer"] # "idle" =>
    /\ last_updated_time_ = entry["timer"].last_updated_time
    /\ IsSubsequence(list_tracker_, entry["timer"].trackers)
    /\ pc["timer"] \in {"check", "cap_prune"} =>
         list_tracker_ = entry["timer"].trackers
    /\ pc["timer"] \in {"cap_publish", "cap_stamp"} =>
         list_tracker_ = Prune(entry["timer"].trackers, current_time["timer"])
    /\ ~cycle.running

C10_Witness ==
  /\ pc["timer"] = "cap_stamp"
  /\ Len(entry["timer"].trackers) = 2
  /\ Len(list_tracker_) = 1
  /\ list_tracker_[1].time < current_time["timer"]

\* checkAndPublish has pruned and not yet returned
Pruned(cb) == pc[cb] \in {"cap_publish", "cap_stamp"}

\* a Track the prune at this time removes for its age
Stale(t, time) == t.status = "CONFIRMED" /\ TooOld(t, time)

\* The steps that change the population: only spawn adds Tracks, at the
\* end of the list, each new and TENTATIVE; a Track that is gone never
\* comes back.
OnlySpawnAdds ==
  Len(list_tracker_') > Len(list_tracker_) =>
    /\ pc["trigger"] = "spawn"
    /\ SubSeq(list_tracker_', 1, Len(list_tracker_)) = list_tracker_
    /\ \A i \in (Len(list_tracker_) + 1)..Len(list_tracker_') :
         /\ list_tracker_'[i].status = "TENTATIVE"
         /\ list_tracker_'[i].count = 1

\* C11: a snapshot is taken from the population as the prune at the
\* snapshot's time, in the same checkAndPublish call, has left it: between
\* that prune and the end of the call the population is its own prune at
\* that time, the snapshot is stamped with it and holds the CONFIRMED Tracks
\* of that population, none of them older than the lifetime; and a removed
\* Track is in no later snapshot, since only spawn adds Tracks and those are
\* new TENTATIVE ones.
C11_SnapshotFollowsPrune ==
  /\ [](\A cb \in Callbacks :
          /\ Pruned(cb) =>
               /\ list_tracker_ = Prune(list_tracker_, PublishTime(cb))
               /\ \A i \in DOMAIN list_tracker_ :
                    ~Stale(list_tracker_[i], PublishTime(cb))
          /\ output[cb].published =>
               /\ output[cb].stamp = PublishTime(cb)
               /\ output[cb].objects = GetTrackedObjects(list_tracker_)
               /\ \A i \in DOMAIN output[cb].objects :
                    /\ output[cb].objects[i].status = "CONFIRMED"
                    /\ ~TooOld(output[cb].objects[i], output[cb].stamp))
  /\ [][OnlySpawnAdds]_vars

\* a snapshot published by a tick that found a CONFIRMED Track older than
\* the lifetime
C11_Witness ==
  /\ pc["timer"] = "cap_stamp"
  /\ output["timer"].published
  /\ \E i \in DOMAIN entry["timer"].trackers :
       Stale(entry["timer"].trackers[i], current_time["timer"])

\* a callback is inside checkAndPublish
InCheckAndPublish(cb) == pc[cb] \in {"cap_prune", "cap_publish", "cap_stamp"}

\* the time from the last_published_time_ a callback was dispatched with to
\* its current_time
Elapsed(cb) == current_time[cb] - entry[cb].last_published_time

BelowMinimum(elapsed) ==
  elapsed * 100 < PublisherPeriod * minimum_publish_interval_ratio

AboveMaximum(elapsed) ==
  elapsed * 100 > PublisherPeriod * maximum_publish_interval_ratio

\* C12: with the publish timer, a tick whose elapsed time since
\* last_published_time_ is below publisher_period x
\* minimum_publish_interval_ratio returns without entering checkAndPublish:
\* no prune, no message, last_published_time_ as it was. onTrigger does not
\* enter checkAndPublish either, so every message is a tick's, stamped at
\* least the minimum interval after the last_published_time_ the tick found;
\* and last_published_time_ is only ever set at the end of a checkAndPublish,
\* to a clock reading no earlier than the stamp of the message of that
\* call. Two consecutive messages are therefore at least the minimum
\* interval apart.
C12_MinimumPublishInterval ==
  /\ [](publish_timer_ =>
          /\ ~InCheckAndPublish("trigger") /\ output["trigger"].calls = 0
          /\ (pc["timer"] # "idle" /\ BelowMinimum(Elapsed("timer"))) =>
               /\ pc["timer"] \in {"check", "done"}
               /\ output["timer"].calls = 0
               /\ ~output["timer"].published
               /\ list_tracker_ = entry["timer"].trackers
               /\ last_published_time_ = entry["timer"].last_published_time
          /\ output["timer"].published =>
               /\ output["timer"].stamp = current_time["timer"]
               /\ ~BelowMinimum(output["timer"].stamp
                                  - entry["timer"].last_published_time))
  /\ [][(publish_timer_ /\ last_published_time_' # last_published_time_) =>
          /\ pc["timer"] = "cap_stamp"
          /\ last_published_time_' = now
          /\ output["timer"].published =>
               output["timer"].stamp <= last_published_time_']_vars

\* a tick that returns for the minimum interval although an update is
\* waiting to be published
C12_Witness ==
  /\ publish_timer_
  /\ pc["timer"] = "done"
  /\ Elapsed("timer") > 0
  /\ BelowMinimum(Elapsed("timer"))
  /\ last_published_time_ < last_updated_time_
  /\ Len(list_tracker_) > 0

\* the values of last_published_time_ from which the clock can still get
\* beyond the maximum publish interval
BeforeHorizon == {t \in 0..MaxTimerTime : AboveMaximum(MaxTimerTime - t)}

\* C13: with the publish timer, a tick whose elapsed time since
\* last_published_time_ is above publisher_period x
\* maximum_publish_interval_ratio enters checkAndPublish once, with its
\* current_time as the time to prune and stamp at, whether or not an update
\* has arrived; and as long as the clock can still get beyond the maximum
\* interval, every checkAndPublish is followed by another one
\* (last_published_time_ moves on).
C13_PublicationKeepsOccurring ==
  /\ [](( /\ pc["timer"] \notin {"idle", "check"}
          /\ AboveMaximum(Elapsed("timer")) ) =>
          /\ InCheckAndPublish("timer") \/ pc["timer"] = "done"
          /\ output["timer"].calls = (IF pc["timer"] = "cap_prune" THEN 0 ELSE 1)
          /\ PublishTime("timer") = current_time["timer"]
          /\ output["timer"].published =>
               output["timer"].stamp = current_time["timer"]
          /\ pc["timer"] = "done" =>
               last_published_time_ >= current_time["timer"])
  /\ \A t \in BeforeHorizon :
       (last_published_time_ = t) ~> (last_published_time_ > t)

\* a tick that publishes for the maximum interval alone, after an earlier
\* publication and with no update since
C13_Witness ==
  /\ pc["timer"] = "cap_stamp"
  /\ output["timer"].published
  /\ AboveMaximum(Elapsed("timer"))
  /\ entry["timer"].last_published_time > 0
  /\ ~updated_since_publication
  /\ last_updated_time_ < entry["timer"].last_published_time

\* the Tracks of a population that have the status
WithStatus(trackers, status) ==
  {i \in DOMAIN trackers : trackers[i].status = status}

\* C14: a cycle that starts from an empty population, for a batch of one
\* detection on a spawn-enabled channel with the transform available,
\* returns with exactly one Track, TENTATIVE and made from that detection;
\* and a message on the main output holds CONFIRMED Tracks only, all of
\* them, while TENTATIVE Tracks go to the tentative output alone, and only
\* when the debugger asks for it.
C14_FirstDetectionIsTentative ==
  /\ ( /\ AtReturn /\ Executed
       /\ cycle.before = <<>>
       /\ Len(cycle.input_objects) = 1
       /\ IsChannelSpawnEnabled(cycle.channel_index) ) =>
       /\ Len(list_tracker_) = 1
       /\ list_tracker_[1].status = "TENTATIVE"
       /\ list_tracker_[1].pos = cycle.input_objects[1]
       /\ list_tracker_[1].last_update = cycle.measurement_time
  /\ \A cb \in Callbacks :
       output[cb].published =>
         /\ WithStatus(output[cb].objects, "TENTATIVE") = {}
         /\ Len(output[cb].objects)
              = Cardinality(WithStatus(list_tracker_, "CONFIRMED"))
         /\ WithStatus(output[cb].tentative, "CONFIRMED") = {}
         /\ Len(output[cb].tentative)
              = IF output[cb].tentative_published
                  THEN Cardinality(WithStatus(list_tracker_, "TENTATIVE"))
                  ELSE 0

\* the message of a trigger that found no Track and leaves one, TENTATIVE:
\* nothing on the main output, the Track on the tentative output
C14_Witness ==
  /\ pc["trigger"] = "cap_stamp"
  /\ entry["trigger"].size = 0
  /\ objects_list.size = 1
  /\ Len(list_tracker_) = 1
  /\ list_tracker_[1].status = "TENTATIVE"
  /\ output["trigger"].published
  /\ output["trigger"].objects = <<>>
  /\ output["trigger"].tentative_published
  /\ Len(output["trigger"].tentative) = 1

\* C15 as stated: with the publish timer, a tick that finds an onTrigger
\* with ready objects to have run since the last publication, and the
\* minimum interval to have passed, enters checkAndPublish.
C15_UpdateTickPublishes ==
  ( /\ publish_timer_
    /\ pc["timer"] = "done"
    /\ entry["timer"].last_published_time > 0
    /\ ~BelowMinimum(Elapsed("timer"))
    /\ output["timer"].calls = 0 ) =>
    ~updated_since_publication

\* onTrigger is past its loop, having received batches
AfterBatches ==
  /\ (InCheckAndPublish("trigger") \/ TriggerDone)
  /\ ~NotReady

\* C16: the batches of a delivered list are handled one at a time and in
\* the order of the list, the k-th runProcess call of the loop taking the
\* k-th batch, and each batch on its own: a batch without a transform
\* returns with no predict, associate, update, prune or spawn and the
\* population it found, a batch with one runs the complete cycle, whatever
\* happened to the batches before it; when the loop is over every batch of
\* the list has had its runProcess call.
C16_SkippingIsPerBatch ==
  /\ cycle.running =>
       /\ batch_index = objects_list.processed
       /\ batch_index <= objects_list.size
       /\ objects_list.floor = cycle.measurement_time
  /\ AtReturn =>
       /\ Skipped # Executed
       /\ Skipped =>
            /\ \A name \in ProcessorSteps : ~InSteps(name)
            /\ list_tracker_ = cycle.before
       /\ Executed =>
            cycle.steps = CycleSteps(enable_odometry_uncertainty_,
                                     IsChannelSpawnEnabled(cycle.channel_index))
  /\ AfterBatches =>
       /\ objects_list.processed = objects_list.size
       /\ objects_list.skipped \/ objects_list.executed

\* the second batch of a list runs its whole cycle, and changes the
\* population, after the first one was skipped
C16_Witness ==
  /\ AtReturn /\ Executed
  /\ batch_index = 2
  /\ objects_list.skipped
  /\ list_tracker_ # cycle.before
  /\ Len(cycle.before) > 0

\* C17: without the publish timer, onTimer never runs and an onTrigger
\* enters checkAndPublish exactly once if it received batches and not at all
\* otherwise, with the header stamp of the last batch of the list as the
\* time; with the publish timer, onTrigger never enters checkAndPublish and
\* publishes nothing, and a tick enters it at most once, with the tick's
\* current_time as the time.
C17_PublicationSource ==
  /\ ~publish_timer_ =>
       /\ pc["timer"] = "idle"
       /\ TriggerDone => output["trigger"].calls = (IF NotReady THEN 0 ELSE 1)
       /\ output["trigger"].calls > 0 =>
            /\ AfterBatches
            /\ PublishTime("trigger") = objects_list.floor
       /\ output["trigger"].published =>
            output["trigger"].stamp = objects_list.floor
  /\ publish_timer_ =>
       /\ ~InCheckAndPublish("trigger")
       /\ output["trigger"].calls = 0
       /\ ~output["trigger"].published
       /\ output["timer"].calls <= 1
       /\ output["timer"].calls > 0 =>
            PublishTime("timer") = current_time["timer"]
       /\ output["timer"].published =>
            output["timer"].stamp = current_time["timer"]

\* without the publish timer, the message of a trigger that handled two
\* batches, stamped with the header time of the second, which is not the
\* clock reading
C17_Witness ==
  /\ ~publish_timer_
  /\ TriggerDone
  /\ objects_list.size = 2
  /\ output["trigger"].published
  /\ output["trigger"].stamp < current_time["trigger"]
  /\ Len(output["trigger"].objects) > 0

\* publish has returned in a checkAndPublish that found no subscriber
NoSubscriber(cb) ==
  /\ pc[cb] \in {"cap_stamp", "done"}
  /\ output[cb].calls > 0
  /\ output[cb].subscriber_count = 0

\* C18: a checkAndPublish that finds no subscriber on the tracked objects
\* output still prunes at the given time (the population is the prune of
\* the one the callback found, where no cycle has changed it since) and
\* still ends with last_published_time_ set to the clock reading; it emits
\* no tracked objects message, no tentative objects message and no markers.
C18_NoSubscriberStillPrunes ==
  \A cb \in Callbacks :
    NoSubscriber(cb) =>
      /\ ~output[cb].published
      /\ DOMAIN output[cb] = {"published", "calls", "subscriber_count"}
      /\ list_tracker_ = Prune(list_tracker_, PublishTime(cb))
      /\ (cb = "timer" \/ ~objects_list.executed) =>
           list_tracker_ = Prune(entry[cb].trackers, PublishTime(cb))
      /\ pc[cb] = "done" =>
           /\ last_published_time_ = now
           /\ ~updated_since_publication

\* a tick without subscriber whose prune has removed a Track and which has
\* moved last_published_time_
C18_Witness ==
  /\ NoSubscriber("timer")
  /\ pc["timer"] = "done"
  /\ Len(list_tracker_) < Len(entry["timer"].trackers)
  /\ last_published_time_ > entry["timer"].last_published_time

\* C19: last_updated_time_ and last_published_time_ start at the clock
\* reading of the construction and never decrease; last_updated_time_
\* changes only in the step of an onTrigger that has received ready objects,
\* to the clock reading of its dispatch, and last_published_time_ only in
\* the last step of a checkAndPublish, to the clock reading then.
C19_TimesNonDecreasing ==
  /\ last_updated_time_ = now /\ last_published_time_ = now
  /\ [][ /\ last_updated_time_' >= last_updated_time_
         /\ last_published_time_' >= last_published_time_
         /\ last_updated_time_' # last_updated_time_ =>
              /\ pc["trigger"] = "getObjects" /\ pc'["trigger"] = "for"
              /\ objects_list'.size > 0
              /\ last_updated_time_' = current_time["trigger"]
         /\ last_published_time_' # last_published_time_ =>
              \E cb \in Callbacks :
                /\ pc[cb] = "cap_stamp" /\ pc'[cb] = "done"
                /\ last_published_time_' = now ]_vars

\* an onTrigger without publish timer that has moved both times, publishing
\* at a header stamp older than the last_published_time_ it found
C19_Witness ==
  /\ TriggerDone
  /\ last_updated_time_ > entry["trigger"].last_updated_time
  /\ last_published_time_ > entry["trigger"].last_published_time
  /\ entry["trigger"].last_published_time > objects_list.back_stamp

====
